---------------------------- MODULE Spec2Model ----------------------------
(***************************************************************************)
(* Connect Four with Monte Carlo tree search (src/src/connect_four.py).    *)
(*                                                                         *)
(* BoardSpec  : the Board class driven by arbitrary make_move / undo_move  *)
(*              calls and URAlgorithm.select_move, from positions replayed *)
(*              from the empty board.                                      *)
(* NodeSpec   : MCTSNode.best_child / best_child_final applied to nodes    *)
(*              drawn from a bounded set of statistics.                    *)
(* GameSpec   : the game loop of Tournament.play_game / _play_game_worker  *)
(*              with selectors that may return any column.                 *)
(* SeedSpec   : two runs of a game between two uniform-random selectors    *)
(*              on one random generator.                                   *)
(* PairSpec   : Tournament._run_pair_sequential / _run_pair_parallel.      *)
(* SearchSpec : PMCGSAlgorithm / UCTAlgorithm select_move, simulation by   *)
(*              simulation.                                                *)
(***************************************************************************)
EXTENDS Integers, Sequences, FiniteSets, TLC

VARIABLES
    grid,       \* Board.grid : grid[row][col] in {"O","R","Y"}, row 0 is the top
    heights,    \* Board.heights : pieces per column
    call,       \* the last Board call: [op, col, player, ret]
    pre,        \* grid and heights as they were before the last Board call
    nops,       \* number of Board calls made since the start position
    node,       \* an MCTSNode: [player_to_move, ni, children]
    sel,        \* the last selection call on node: [op, kind, idx, move]
    game,       \* one run of the game loop: its board, side to move, moves, result
    rerun,      \* the random generator and the two games played on it
    pair,       \* one call of a pair runner: its games and counters
    search      \* one call of an engine's select_move: its tree and scratch board

boardVars == <<grid, heights, call, pre, nops>>
nodeVars  == <<node, sel>>
runVars   == <<game, rerun, pair, search>>
vars      == <<grid, heights, call, pre, nops, node, sel, game, rerun, pair, search>>

-----------------------------------------------------------------------------
(* Program constants *)

ROWS == 6
COLS == 7

Players == {"R", "Y"}

(* Bounds of the model *)

\* Board calls explored after each start position
MaxOps == 2

\* children of the node handed to the selection rules
MaxChildren == 3

\* visit count of the node handed to the selection rules
MaxVisits == 5

Rows == 0 .. (ROWS - 1)
Cols == 0 .. (COLS - 1)

\* column arguments handed to make_move: every column and one index off each end
MakeCols == -1 .. COLS
\* column arguments handed to undo_move: every index Python accepts for a list
\* of length COLS (negative ones count from the end) and one off each end
UndoCols == (0 - COLS - 1) .. COLS

-----------------------------------------------------------------------------
(* _opponent *)

\* mutant: the same player again
OpponentSame(player) == player

Opponent(player) == IF player = "R" THEN "Y" ELSE "R"

-----------------------------------------------------------------------------
(* Board *)

EmptyGrid == [r \in Rows |-> [c \in Cols |-> "O"]]
EmptyHeights == [c \in Cols |-> 0]
EmptyBoard == [grid |-> EmptyGrid, heights |-> EmptyHeights]

\* mutant: accepts a move into a column that already holds ROWS pieces
IsValidMoveOffByOne(h, col) == 0 <= col /\ col < COLS /\ h[col] <= ROWS

\* Board.is_valid_move: the conjunction short-circuits, so heights is only
\* indexed with a column in range
IsValidMove(h, col) == 0 <= col /\ col < COLS /\ h[col] < ROWS

\* mutant: writes from the top of the column instead of the lowest open row
MoveRowFromTop(h, col) == h[col]

\* the row a move into col is written to
MoveRow(h, col) == ROWS - 1 - h[col]

\* Board.make_move: the board after the call and the value returned
MakeMove(b, col, player) ==
    IF ~IsValidMove(b.heights, col)
    THEN [grid |-> b.grid, heights |-> b.heights, ret |-> "False"]
    ELSE LET row == MoveRow(b.heights, col)
         IN  [grid    |-> [b.grid EXCEPT ![row][col] = player],
              heights |-> [b.heights EXCEPT ![col] = @ + 1],
              ret     |-> "True"]

\* Python list indexing: i in 0..len-1 as is, -len..-1 from the end,
\* anything else raises IndexError (modelled as -1)
PyIndex(i, len) ==
    IF 0 <= i /\ i < len THEN i
    ELSE IF i < 0 /\ i >= 0 - len THEN i + len
    ELSE -1

\* mutant: decrements the height but leaves the token in the grid
UndoMoveKeepsToken(b, col) ==
    LET c == PyIndex(col, COLS)
    IN  IF c = -1
        THEN [grid |-> b.grid, heights |-> b.heights, ret |-> "IndexError"]
        ELSE IF b.heights[c] = 0
        THEN [grid |-> b.grid, heights |-> b.heights, ret |-> "False"]
        ELSE [grid |-> b.grid, heights |-> [b.heights EXCEPT ![c] = @ - 1],
              ret |-> "True"]

\* mutant: computes the row before decrementing the height: clears the cell above
\* the topmost token
UndoMoveStaleRow(b, col) ==
    LET c == PyIndex(col, COLS)
    IN  IF c = -1
        THEN [grid |-> b.grid, heights |-> b.heights, ret |-> "IndexError"]
        ELSE IF b.heights[c] = 0
        THEN [grid |-> b.grid, heights |-> b.heights, ret |-> "False"]
        ELSE LET row == ROWS - 1 - b.heights[c]
             IN  [grid    |-> [b.grid EXCEPT ![row][c] = "O"],
                  heights |-> [b.heights EXCEPT ![c] = @ - 1],
                  ret     |-> "True"]

\* Board.undo_move: heights[col] is read first (IndexError leaves the board
\* as it was); a negative col addresses the column counted from the right
UndoMove(b, col) ==
    LET c == PyIndex(col, COLS)
    IN  IF c = -1
        THEN [grid |-> b.grid, heights |-> b.heights, ret |-> "IndexError"]
        ELSE IF b.heights[c] = 0
        THEN [grid |-> b.grid, heights |-> b.heights, ret |-> "False"]
        ELSE LET h2  == [b.heights EXCEPT ![c] = @ - 1]
                 row == MoveRow(h2, c)
             IN  [grid    |-> [b.grid EXCEPT ![row][c] = "O"],
                  heights |-> h2,
                  ret     |-> "True"]

\* the list comprehension [col for col in range(n) if is_valid_move(col)],
\* built left to right
RECURSIVE LegalUpTo(_, _)
LegalUpTo(h, n) ==
    IF n = 0 THEN <<>>
    ELSE IF IsValidMove(h, n - 1)
         THEN Append(LegalUpTo(h, n - 1), n - 1)
         ELSE LegalUpTo(h, n - 1)

\* mutant: scans range(COLS - 1) only
GetLegalMovesShort(h) == LegalUpTo(h, COLS - 1)

\* Board.get_legal_moves
GetLegalMoves(h) == LegalUpTo(h, COLS)

\* mutant: no board is ever reported full
IsFullNever(h) == FALSE

\* Board.is_full
IsFull(h) == \A c \in Cols : h[c] = ROWS

\* Board.check_win: the four scans, each over its own range of start cells
WinHorizontal(g, player) ==
    \E row \in 0 .. (ROWS - 1) : \E col \in 0 .. (COLS - 3 - 1) :
        \A i \in 0 .. 3 : g[row][col + i] = player

WinVertical(g, player) ==
    \E row \in 0 .. (ROWS - 3 - 1) : \E col \in 0 .. (COLS - 1) :
        \A i \in 0 .. 3 : g[row + i][col] = player

WinDownRight(g, player) ==
    \E row \in 0 .. (ROWS - 3 - 1) : \E col \in 0 .. (COLS - 3 - 1) :
        \A i \in 0 .. 3 : g[row + i][col + i] = player

\* mutant: starts the down-left scan one column too far right
WinDownLeftShort(g, player) ==
    \E row \in 0 .. (ROWS - 3 - 1) : \E col \in 4 .. (COLS - 1) :
        \A i \in 0 .. 3 : g[row + i][col - i] = player

WinDownLeft(g, player) ==
    \E row \in 0 .. (ROWS - 3 - 1) : \E col \in 3 .. (COLS - 1) :
        \A i \in 0 .. 3 : g[row + i][col - i] = player

CheckWin(g, player) ==
    \/ WinHorizontal(g, player)
    \/ WinVertical(g, player)
    \/ WinDownRight(g, player)
    \/ WinDownLeft(g, player)

\* mutant: only a full board ends the game
IsTerminalFullOnly(g, h) == IF IsFull(h) THEN <<TRUE, 0>> ELSE <<FALSE, 0>>

\* mutant: checks Red before Yellow
IsTerminalRedFirst(g, h) ==
    IF CheckWin(g, "R") THEN <<TRUE, -1>>
    ELSE IF CheckWin(g, "Y") THEN <<TRUE, 1>>
    ELSE IF IsFull(h) THEN <<TRUE, 0>>
    ELSE <<FALSE, 0>>

\* Board.is_terminal: <<terminal?, value>>
IsTerminal(g, h) ==
    IF CheckWin(g, "Y") THEN <<TRUE, 1>>
    ELSE IF CheckWin(g, "R") THEN <<TRUE, -1>>
    ELSE IF IsFull(h) THEN <<TRUE, 0>>
    ELSE <<FALSE, 0>>

-----------------------------------------------------------------------------
(* Start positions: each is the empty board after a run of make_move calls, *)
(* given column by column, bottom token first.                              *)

RECURSIVE DropAll(_, _, _)
DropAll(b, col, tokens) ==
    IF tokens = <<>> THEN b
    ELSE LET r == MakeMove(b, col, Head(tokens))
         IN  DropAll([grid |-> r.grid, heights |-> r.heights], col, Tail(tokens))

\* the board after every column was filled with its tokens by make_move; a
\* make_move into one column leaves the others alone, so each column is
\* built on its own and the columns are put side by side
StartBoard(stacks) ==
    LET built == [c \in Cols |-> DropAll(EmptyBoard, c, stacks[c + 1])]
    IN  [grid    |-> [r \in Rows |-> [c \in Cols |-> built[c].grid[r][c]]],
         heights |-> [c \in Cols |-> built[c].heights[c]]]

StartStacks ==
    { \* the empty board
      << <<>>, <<>>, <<>>, <<>>, <<>>, <<>>, <<>> >>,
      \* one column a move short of full beside a shorter one
      << <<"R","Y","R","Y","R">>, <<"Y","R">>, <<>>, <<>>, <<>>, <<>>, <<>> >>,
      \* three in a row on the bottom row on each side of column 3
      << <<"R">>, <<"R">>, <<"R">>, <<>>, <<"Y">>, <<"Y">>, <<"Y">> >>,
      \* three stacked in two neighbouring columns
      << <<>>, <<>>, <<>>, <<"R","R","R">>, <<"Y","Y","Y">>, <<>>, <<>> >>,
      \* a rising staircase whose fourth step is open in column 3
      << <<"Y">>, <<"R","Y">>, <<"R","R","Y">>, <<"Y","R","R">>, <<>>, <<>>, <<>> >>,
      \* a falling staircase whose fourth step is open in column 3
      << <<>>, <<>>, <<>>, <<"Y","R","R">>, <<"R","R","Y">>, <<"R","Y">>, <<"Y">> >>,
      \* a full board with no four in a row
      << <<"R","Y","R","Y","R","Y">>, <<"R","Y","R","Y","R","Y">>,
         <<"R","Y","R","Y","R","Y">>, <<"Y","R","Y","R","Y","R">>,
         <<"R","Y","R","Y","R","Y">>, <<"R","Y","R","Y","R","Y">>,
         <<"R","Y","R","Y","R","Y">> >>,
      \* the same board two moves before it fills
      << <<"R","Y","R","Y","R","Y">>, <<"R","Y","R","Y","R","Y">>,
         <<"R","Y","R","Y","R","Y">>, <<"Y","R","Y","R","Y">>,
         <<"R","Y","R","Y","R","Y">>, <<"R","Y","R","Y","R","Y">>,
         <<"R","Y","R","Y","R">> >> }

StartBoards == { StartBoard(s) : s \in StartStacks }

-----------------------------------------------------------------------------
(* Board calls *)

\* after_make: the call is an undo_move(col) made right after a successful
\* make_move(col, _) on the same column argument
NoCall == [op |-> "new", col |-> 0, player |-> "-", ret |-> "-", after_make |-> FALSE]

IdleNode == [player_to_move |-> "Y", ni |-> 0, children |-> <<>>]
NoSel == [op |-> "none", kind |-> "-", idx |-> 0, move |-> -1]

\* no game loop, pair runner or engine call is in progress
NoRun == [pc |-> "idle"]
RunsIdle == game = NoRun /\ rerun = NoRun /\ pair = NoRun /\ search = NoRun

\* mutant: the selector always takes the first legal column
URSelectMoveFirst(h) ==
    LET legal_moves == GetLegalMoves(h)
    IN  IF legal_moves = <<>> THEN {-1} ELSE {legal_moves[1]}

\* URAlgorithm.select_move: the values the call can return.  random.choice
\* can return any element of the list.
URSelectMove(h) ==
    LET legal_moves == GetLegalMoves(h)
    IN  IF legal_moves = <<>> THEN {-1}
        ELSE { legal_moves[i] : i \in 1 .. Len(legal_moves) }

BoardInit ==
    /\ \E b \in StartBoards : grid = b.grid /\ heights = b.heights
    /\ call = NoCall
    /\ pre = [grid |-> grid, heights |-> heights]
    /\ nops = 0
    /\ node = IdleNode
    /\ sel = NoSel
    /\ RunsIdle

DoMakeMove(col, player) ==
    /\ nops < MaxOps
    /\ LET r == MakeMove([grid |-> grid, heights |-> heights], col, player)
       IN  /\ grid' = r.grid
           /\ heights' = r.heights
           /\ call' = [op |-> "make_move", col |-> col, player |-> player,
                       ret |-> r.ret, after_make |-> FALSE]
    /\ pre' = [grid |-> grid, heights |-> heights]
    /\ nops' = nops + 1
    /\ UNCHANGED <<nodeVars, runVars>>

DoUndoMove(col) ==
    /\ nops < MaxOps
    /\ LET r == UndoMove([grid |-> grid, heights |-> heights], col)
       IN  /\ grid' = r.grid
           /\ heights' = r.heights
           /\ call' = [op |-> "undo_move", col |-> col, player |-> "-", ret |-> r.ret,
                       after_make |-> (call.op = "make_move" /\ call.ret = "True"
                                       /\ call.col = col)]
    /\ pre' = [grid |-> grid, heights |-> heights]
    /\ nops' = nops + 1
    /\ UNCHANGED <<nodeVars, runVars>>

\* URAlgorithm(board).select_move(player, ...): reads the board, returns move
DoURSelectMove(move, player) ==
    /\ nops < MaxOps
    /\ move \in URSelectMove(heights)
    /\ call' = [op |-> "select_move", col |-> move, player |-> player, ret |-> "-",
                after_make |-> FALSE]
    /\ pre' = [grid |-> grid, heights |-> heights]
    /\ nops' = nops + 1
    /\ UNCHANGED <<grid, heights, nodeVars, runVars>>

BoardNext ==
    \/ \E col \in MakeCols : \E player \in Players : DoMakeMove(col, player)
    \/ \E col \in UndoCols : DoUndoMove(col)
    \/ \E move \in MakeCols : \E player \in Players : DoURSelectMove(move, player)

BoardSpec == BoardInit /\ [][BoardNext]_vars

-----------------------------------------------------------------------------
(* MCTSNode *)

\* c_param = 1.4, in tenths
CParamTenths == 14

\* Scores are kept in fixed point, in units of 1/Scale.  At this scale the
\* order of the scores below is the order of the floating-point values the
\* program computes for every node with ni <= 6.
Scale == 10 ^ 4

\* float('inf') and -float('inf'): beyond every score a node can have
PosInf == 10 ^ 9
NegInf == 0 - PosInf

\* math.log(n) in units of 1/Scale, n = 1 .. 8
LnTable == << 0, 6931, 10986, 13862, 16094, 17917, 19459, 20794 >>
Ln(n) == LnTable[n]

\* math.sqrt on a fixed-point radicand: the largest r with r * r <= x
RECURSIVE SqrtBetween(_, _, _)
SqrtBetween(x, lo, hi) ==
    IF lo = hi THEN lo
    ELSE LET mid == (lo + hi + 1) \div 2
         IN  IF mid * mid <= x THEN SqrtBetween(x, mid, hi)
             ELSE SqrtBetween(x, lo, mid - 1)

Sqrt(x) == SqrtBetween(x, 0, 2 * Scale)

\* exploitation = child.wi / child.ni
Exploitation(child) == (child.wi * Scale) \div child.ni

\* exploration = c_param * math.sqrt(math.log(self.ni) / child.ni)
Exploration(n, child) ==
    (CParamTenths * Sqrt((Ln(n.ni) * Scale) \div child.ni)) \div 10

\* ucb_value of the i-th child in the node's iteration order
Ucb(n, i) == Exploitation(n.children[i]) + Exploration(n, n.children[i])

\* best_value before the first child is looked at
InitialBest(player) == IF player = "Y" THEN NegInf ELSE PosInf

\* mutant: a later child of equal score replaces the one kept
ComparatorLoose(player, current, best) ==
    IF player = "Y" THEN current >= best ELSE current <= best

\* comparator: Yellow keeps the larger value, any other player the smaller
Comparator(player, current, best) ==
    IF player = "Y" THEN current > best ELSE current < best

\* the loop of best_child over self.children.values() from child i on;
\* best_child is an index into children, 0 for None
RECURSIVE UcbScan(_, _, _, _)
UcbScan(n, i, best_value, best_child) ==
    IF i > Len(n.children) THEN best_child
    ELSE LET ucb_value == Ucb(n, i)
         IN  IF Comparator(n.player_to_move, ucb_value, best_value)
             THEN UcbScan(n, i + 1, ucb_value, i)
             ELSE UcbScan(n, i + 1, best_value, best_child)

Unexplored(n) == { i \in 1 .. Len(n.children) : n.children[i].ni = 0 }

ChildResult(n, i) ==
    IF i = 0 THEN [kind |-> "None", idx |-> 0, move |-> -1]
    ELSE [kind |-> "child", idx |-> i, move |-> n.children[i].move]

\* mutant: with an unvisited child present, picks at random among all
\* children
BestChildAnyChild(n) ==
    IF Len(n.children) = 0 THEN { ChildResult(n, 0) }
    ELSE IF Unexplored(n) # {}
    THEN { ChildResult(n, i) : i \in 1 .. Len(n.children) }
    ELSE IF n.ni = 0
    THEN { [kind |-> "ValueError", idx |-> 0, move |-> -1] }
    ELSE { ChildResult(n, UcbScan(n, 1, InitialBest(n.player_to_move), 0)) }

\* MCTSNode.best_child: every value the call can return.  random.choice
\* may return any unvisited child; math.log(0) raises ValueError.
BestChild(n) ==
    IF Len(n.children) = 0 THEN { ChildResult(n, 0) }
    ELSE IF Unexplored(n) # {}
    THEN { ChildResult(n, i) : i \in Unexplored(n) }
    ELSE IF n.ni = 0
    THEN { [kind |-> "ValueError", idx |-> 0, move |-> -1] }
    ELSE { ChildResult(n, UcbScan(n, 1, InitialBest(n.player_to_move), 0)) }

\* mutant: counts a child that was never visited as worth 0
FinalScanCountsUnvisited(n, i, best_value, best_child) ==
    LET RECURSIVE Scan(_, _, _)
        Scan(j, bv, bc) ==
            IF j > Len(n.children) THEN bc
            ELSE LET child == n.children[j]
                     value == IF child.ni > 0 THEN Exploitation(child) ELSE 0
                 IN  IF Comparator(n.player_to_move, value, bv)
                     THEN Scan(j + 1, value, j)
                     ELSE Scan(j + 1, bv, bc)
    IN  Scan(i, best_value, best_child)

\* the loop of best_child_final over self.children.items() from child i on
RECURSIVE FinalScan(_, _, _, _)
FinalScan(n, i, best_value, best_child) ==
    IF i > Len(n.children) THEN best_child
    ELSE LET child == n.children[i]
         IN  IF child.ni > 0
             THEN LET value == Exploitation(child)
                  IN  IF Comparator(n.player_to_move, value, best_value)
                      THEN FinalScan(n, i + 1, value, i)
                      ELSE FinalScan(n, i + 1, best_value, best_child)
             ELSE FinalScan(n, i + 1, best_value, best_child)

\* MCTSNode.best_child_final: (best_move, best_child); best_move is -1 and
\* best_child None when no child qualifies
BestChildFinal(n) ==
    IF Len(n.children) = 0 THEN ChildResult(n, 0)
    ELSE ChildResult(n, FinalScan(n, 1, InitialBest(n.player_to_move), 0))

-----------------------------------------------------------------------------
(* Nodes handed to the selection rules.  children lists the entries of the  *)
(* children dict in insertion order; the keys are the first columns of one  *)
(* of the orders in which a node's moves may have been expanded.  The visit *)
(* counts respect what backpropagation maintains: a child is visited only   *)
(* on a path through its parent, and each visit adds -1, 0 or +1 to wi.     *)

ExpansionOrders ==
    { <<0, 1, 2, 3, 4, 5, 6>>, <<6, 5, 4, 3, 2, 1, 0>>, <<3, 2, 4, 1, 5, 0, 6>> }

ChildStats == { st \in [wi : (0 - MaxVisits) .. MaxVisits, ni : 0 .. MaxVisits] :
                    st.wi <= st.ni /\ 0 - st.wi <= st.ni }

RECURSIVE SumVisits(_, _)
SumVisits(st, k) == IF k = 0 THEN 0 ELSE st[k].ni + SumVisits(st, k - 1)

NodeInit ==
    /\ \E k \in 0 .. MaxChildren : \E st \in [1 .. k -> ChildStats] :
          /\ SumVisits(st, k) <= MaxVisits
          /\ \E visits \in SumVisits(st, k) .. MaxVisits :
             \E order \in ExpansionOrders : \E player \in Players :
                node = [player_to_move |-> player,
                        ni             |-> visits,
                        children       |-> [i \in 1 .. k |->
                                               [move |-> order[i],
                                                wi   |-> st[i].wi,
                                                ni   |-> st[i].ni]]]
    /\ sel = NoSel
    /\ grid = EmptyGrid
    /\ heights = EmptyHeights
    /\ call = NoCall
    /\ pre = EmptyBoard
    /\ nops = 0
    /\ RunsIdle

CallBestChild ==
    /\ \E r \in BestChild(node) :
          sel' = [op |-> "best_child", kind |-> r.kind, idx |-> r.idx, move |-> r.move]
    /\ UNCHANGED <<node, boardVars, runVars>>

CallBestChildFinal ==
    /\ LET r == BestChildFinal(node)
       IN  sel' = [op |-> "best_child_final", kind |-> r.kind, idx |-> r.idx,
                   move |-> r.move]
    /\ UNCHANGED <<node, boardVars, runVars>>

NodeNext ==
    \/ CallBestChild
    \/ CallBestChildFinal

NodeSpec == NodeInit /\ [][NodeNext]_vars

-----------------------------------------------------------------------------
(* The game loop: Tournament.play_game and _play_game_worker, which run the *)
(* same loop on a new board and two selectors built on that board.         *)

\* Selectors are strategies fixed before the game: the selector asked at the
\* k-th turn of the loop answers with the k-th column of a line of play, and
\* -1 (no move) once the line is used up.  Up to MaxOffLine times in a game a
\* selector answers with any other value instead.
MaxOffLine == 1

\* a drawn game of 42 moves
DrawnLine ==
    << 0, 0, 0, 0, 0, 0,   1, 1, 1, 1, 1, 1,   2, 2, 2, 2, 2, 2,
       4, 3, 3, 4, 4, 3,   3, 4, 4, 3, 3, 4,
       5, 5, 5, 5, 5, 5,   6, 6, 6, 6, 6, 6 >>

Lines ==
    { DrawnLine,
      << 0, 1, 0, 1, 0, 1, 0 >>,            \* Red completes column 0
      << 0, 1, 0, 1, 0, 1, 2, 1 >>,         \* Yellow completes column 1
      << 0, 0, 1, 1, 2, 2, 3 >>,            \* Red completes the bottom row
      << 3, 3, 3, 3, 3, 3, 3 >>,            \* Red's fourth move asks for a full column
      << 2, 3, 7 >> }                       \* Red's second move is no column at all

LineMove(line, k) == IF k <= Len(line) THEN line[k] ELSE -1

\* what a selector may answer at turn k
SelectorMoves(line, k, off) ==
    {LineMove(line, k)} \cup (IF off < MaxOffLine THEN MakeCols ELSE {})

\* mutant: a rejected column does not stop the game
SelectorFailedOnlyNoMove(move, ret) == move = -1

\* move == -1 or not board.make_move(move, current_player)
SelectorFailed(move, ret) == move = -1 \/ ret = "False"

\* mutant: the side whose selector failed is given the game
ForfeitToMover(current_player) == current_player

\* return 'Y' if current_player == 'R' else 'R'
Forfeit(current_player) == IF current_player = "R" THEN "Y" ELSE "R"

\* mutant: the two winners are exchanged
GameResultSwapped(value) ==
    IF value = 1 THEN "R" ELSE IF value = -1 THEN "Y" ELSE "Draw"

\* return 'Y' if value == 1 else 'R' if value == -1 else 'Draw'
GameResult(value) ==
    IF value = 1 THEN "Y" ELSE IF value = -1 THEN "R" ELSE "Draw"

\* the side to move after a move that did not end the game:
\* 'Y' if current_player == 'R' else 'R' in play_game, _opponent in the worker
NextPlayer(current_player) == Opponent(current_player)

NoTurn == [algo |-> 0, player |-> "-", move |-> -1, placed |-> FALSE,
           on_terminal |-> FALSE]

GameInit ==
    /\ \E line \in Lines :
          game = [pc             |-> "loop",
                  line           |-> line,
                  grid           |-> EmptyGrid,
                  heights        |-> EmptyHeights,
                  current_player |-> "R",
                  turns          |-> 0,
                  off            |-> 0,
                  nmoves         |-> 0,
                  before         |-> EmptyBoard,
                  last           |-> NoTurn,
                  result         |-> "-"]
    /\ grid = EmptyGrid
    /\ heights = EmptyHeights
    /\ call = NoCall
    /\ pre = EmptyBoard
    /\ nops = 0
    /\ node = IdleNode
    /\ sel = NoSel
    /\ rerun = NoRun /\ pair = NoRun /\ search = NoRun

\* one pass of the while loop: the selector of the side to move answers with
\* move, the move is made, and the game returns or the side to move changes
GameTurn(move) ==
    /\ game.pc = "loop"
    /\ move \in SelectorMoves(game.line, game.turns + 1, game.off)
    /\ LET b      == [grid |-> game.grid, heights |-> game.heights]
           player == game.current_player
           r      == IF move = -1 THEN [grid |-> b.grid, heights |-> b.heights,
                                        ret |-> "-"]
                     ELSE MakeMove(b, move, player)
           t      == IsTerminal(r.grid, r.heights)
           failed == SelectorFailed(move, r.ret)
           turn   == [algo        |-> IF player = "R" THEN 1 ELSE 2,
                      player      |-> player,
                      move        |-> move,
                      placed      |-> r.ret = "True",
                      on_terminal |-> IsTerminal(b.grid, b.heights)[1]]
       IN  game' = [game EXCEPT
                      !.pc = IF failed \/ t[1] THEN "returned" ELSE "loop",
                      !.grid = r.grid,
                      !.heights = r.heights,
                      !.current_player =
                          IF failed \/ t[1] THEN player
                          ELSE NextPlayer(player),
                      !.turns = game.turns + 1,
                      !.off = IF move = LineMove(game.line, game.turns + 1)
                              THEN game.off ELSE game.off + 1,
                      !.nmoves = IF r.ret = "True" THEN game.nmoves + 1
                                 ELSE game.nmoves,
                      !.before = b,
                      !.last = turn,
                      !.result = IF failed THEN Forfeit(player)
                                 ELSE IF t[1] THEN GameResult(t[2])
                                 ELSE "-"]
    /\ UNCHANGED <<boardVars, nodeVars, rerun, pair, search>>

GameNext == \E move \in MakeCols : GameTurn(move)

GameSpec == GameInit /\ [][GameNext]_vars

\* the loop runs on until it returns
GameLiveSpec == GameSpec /\ WF_vars(GameNext)

-----------------------------------------------------------------------------
(* Two games between uniform-random selectors on one random generator *)

\* The generator of the random module is a deterministic machine: seeding
\* sets its state from the seed alone, and every draw is a function of the
\* state and moves the state on.  Here it has RngStates states.
RngStates == 16

\* seeds handed to _play_game_worker are 0 .. MaxSeed
MaxSeed == 3

\* seed=None, the default of _play_game_worker
NoSeed == 0 - 1

\* mutant: the seed is not applied
SeedingIgnored(state, seed) == state

\* if seed is not None: random.seed(seed)
Seeding(state, seed) == IF seed # NoSeed THEN seed % RngStates ELSE state

\* random.choice(seq) in generator state `state`
RandomChoice(state, seq) == seq[(state % Len(seq)) + 1]

\* the generator state after one draw
RandomStep(state) == (5 * state + 3) % RngStates

\* Tournament.play_game takes no seed; _play_game_worker takes one or None
SimulatorCalls ==
    { [sim |-> "play_game", seed |-> NoSeed] }
    \cup { [sim |-> "_play_game_worker", seed |-> sd] : sd \in {NoSeed} \cup 0 .. MaxSeed }

RerunInit ==
    /\ \E c \in SimulatorCalls : \E state \in 0 .. (RngStates - 1) :
          rerun = [pc             |-> "call",
                   sim            |-> c.sim,
                   seed           |-> c.seed,
                   rng            |-> state,
                   prior          |-> <<>>,
                   grid           |-> EmptyGrid,
                   heights        |-> EmptyHeights,
                   current_player |-> "R",
                   moves          |-> <<>>,
                   games          |-> <<>>]
    /\ grid = EmptyGrid
    /\ heights = EmptyHeights
    /\ call = NoCall
    /\ pre = EmptyBoard
    /\ nops = 0
    /\ node = IdleNode
    /\ sel = NoSel
    /\ game = NoRun /\ pair = NoRun /\ search = NoRun

\* the simulator is called: the worker applies its seed, then both set up a
\* new board with Red to move.  It is called twice, with the same arguments.
RerunCall ==
    /\ rerun.pc = "call"
    /\ Len(rerun.games) < 2
    /\ rerun' = [rerun EXCEPT
                   !.pc = "loop",
                   !.prior = Append(rerun.prior, rerun.rng),
                   !.rng = IF rerun.sim = "_play_game_worker"
                           THEN Seeding(rerun.rng, rerun.seed)
                           ELSE rerun.rng,
                   !.grid = EmptyGrid,
                   !.heights = EmptyHeights,
                   !.current_player = "R",
                   !.moves = <<>>]
    /\ UNCHANGED <<boardVars, nodeVars, game, pair, search>>

\* one pass of the game loop with URAlgorithm.select_move on both sides
RerunTurn ==
    /\ rerun.pc = "loop"
    /\ LET b      == [grid |-> rerun.grid, heights |-> rerun.heights]
           player == rerun.current_player
           legal_moves == GetLegalMoves(b.heights)
           move   == IF legal_moves = <<>> THEN -1
                     ELSE RandomChoice(rerun.rng, legal_moves)
           r      == IF move = -1 THEN [grid |-> b.grid, heights |-> b.heights,
                                        ret |-> "-"]
                     ELSE MakeMove(b, move, player)
           t      == IsTerminal(r.grid, r.heights)
           failed == SelectorFailed(move, r.ret)
           result == IF failed THEN Forfeit(player) ELSE GameResult(t[2])
           moves  == Append(rerun.moves, move)
       IN  rerun' = [rerun EXCEPT
                       !.pc = IF failed \/ t[1] THEN "call" ELSE "loop",
                       !.rng = IF legal_moves = <<>> THEN rerun.rng
                               ELSE RandomStep(rerun.rng),
                       !.grid = r.grid,
                       !.heights = r.heights,
                       !.current_player = IF failed \/ t[1] THEN player
                                          ELSE NextPlayer(player),
                       !.moves = moves,
                       !.games = IF failed \/ t[1]
                                 THEN Append(rerun.games,
                                             [moves |-> moves, winner |-> result])
                                 ELSE rerun.games]
    /\ UNCHANGED <<boardVars, nodeVars, game, pair, search>>

RerunNext == RerunCall \/ RerunTurn

SeedSpec == RerunInit /\ [][RerunNext]_vars

-----------------------------------------------------------------------------
(* Tournament: one pairing of run_tournament, played by _run_pair_sequential *)
(* or _run_pair_parallel                                                    *)

\* num_games is 0 .. MaxGames
MaxGames == 4

\* parallel_workers is None, or 1 .. MaxWorkers
MaxWorkers == 2

\* parallel_workers=None
NoWorkers == 0

\* the keys of Tournament.algorithms, in insertion order
AlgoNames == << "UR", "PMCGS_500", "PMCGS_10000", "UCT_500", "UCT_10000" >>

\* run_tournament plays every (row, col) with row and col different; the
\* runners treat every pairing alike, and one pairing and its reverse are
\* explored: UR against UCT_500
Pairings ==
    { rc \in {1, 4} \X {1, 4} : rc[1] # rc[2] }

\* use_parallel = parallel_workers is not None and parallel_workers > 1
UseParallel(parallel_workers) ==
    parallel_workers # NoWorkers /\ parallel_workers > 1

\* The winner of a game is whatever the game loop returns.  Between two
\* copies of a strategy that always wins as Red it is 'R'.
Winners(players) == IF players = "red_wins" THEN {"R"} ELSE {"R", "Y", "Draw"}

\* mutant: the row algorithm plays Red in every game
RowAlwaysRed(g) == TRUE

\* game % 2 == 0, (i % 2 == 0): the row algorithm plays Red in game g
RowIsRed(g) == g % 2 = 0

\* mutant: only Red wins are counted for the row algorithm
TallyRedOnly(t, is_red, winner) ==
    IF winner = "R" THEN [t EXCEPT !.row_wins = t.row_wins + 1]
    ELSE IF winner = "Draw" THEN [t EXCEPT !.draws = t.draws + 1]
    ELSE t

\* the counting of one winner, the same in both runners
Tally(t, is_red, winner) ==
    IF is_red
    THEN (IF winner = "R" THEN [t EXCEPT !.row_wins = t.row_wins + 1]
          ELSE IF winner = "Draw" THEN [t EXCEPT !.draws = t.draws + 1]
          ELSE t)
    ELSE (IF winner = "Y" THEN [t EXCEPT !.row_wins = t.row_wins + 1]
          ELSE IF winner = "Draw" THEN [t EXCEPT !.draws = t.draws + 1]
          ELSE t)

\* ((row_wins + 0.5 * draws) / num_games) * 100 as the fraction num / den;
\* 0 when num_games is 0
Score(t, num_games) ==
    IF num_games = 0 THEN [num |-> 0, den |-> 1]
    ELSE [num |-> (2 * t.row_wins + t.draws) * 50, den |-> num_games]

\* the loop of _run_pair_sequential over the winners of games 0 .. n - 1
RECURSIVE SequentialTally(_, _)
SequentialTally(winners, n) ==
    IF n = 0 THEN [row_wins |-> 0, draws |-> 0]
    ELSE Tally(SequentialTally(winners, n - 1), RowIsRed(n - 1), winners[n])

\* mutant: results are read in the order the games finish
NextCompleted(p, k) == IF k <= Len(p.finished) THEN p.finished[k] ELSE 0

\* the future read at the k-th pass of the collecting loop: futures are read
\* in the order they were submitted
NextFuture(p, k) == k

PairInit ==
    /\ \E rc \in Pairings : \E num_games \in 0 .. MaxGames :
       \E parallel_workers \in {NoWorkers} \cup 1 .. MaxWorkers :
       \E players \in {"any", "red_wins"} :
          pair = [pc               |-> "call",
                  row              |-> AlgoNames[rc[1]],
                  col              |-> AlgoNames[rc[2]],
                  num_games        |-> num_games,
                  parallel_workers |-> parallel_workers,
                  players          |-> players,
                  games            |-> <<>>,
                  finished         |-> <<>>,
                  collected        |-> 0,
                  tally            |-> [row_wins |-> 0, draws |-> 0],
                  score            |-> [num |-> 0, den |-> 1]]
    /\ grid = EmptyGrid
    /\ heights = EmptyHeights
    /\ call = NoCall
    /\ pre = EmptyBoard
    /\ nops = 0
    /\ node = IdleNode
    /\ sel = NoSel
    /\ game = NoRun /\ rerun = NoRun /\ search = NoRun

\* the game with index g (0-based) as the runners set it up
NewGame(p, g, status) ==
    [red    |-> IF RowIsRed(g) THEN p.row ELSE p.col,
     yellow |-> IF RowIsRed(g) THEN p.col ELSE p.row,
     is_red |-> RowIsRed(g),
     status |-> status,
     winner |-> "-"]

\* run_tournament calls _run_pair_sequential
PairCallSequential ==
    /\ pair.pc = "call"
    /\ ~UseParallel(pair.parallel_workers)
    /\ pair' = [pair EXCEPT !.pc = "games"]
    /\ UNCHANGED <<boardVars, nodeVars, game, rerun, search>>

\* one pass of `for game in range(num_games)`: a game is played and counted
PairPlayGame(winner) ==
    /\ pair.pc = "games"
    /\ Len(pair.games) < pair.num_games
    /\ winner \in Winners(pair.players)
    /\ LET g  == Len(pair.games)
           gm == [NewGame(pair, g, "done") EXCEPT !.winner = winner]
       IN  pair' = [pair EXCEPT
                      !.games = Append(pair.games, gm),
                      !.finished = Append(pair.finished, g + 1),
                      !.collected = g + 1,
                      !.tally = Tally(pair.tally, RowIsRed(g), winner)]
    /\ UNCHANGED <<boardVars, nodeVars, game, rerun, search>>

\* the return of _run_pair_sequential
PairReturnSequential ==
    /\ pair.pc = "games"
    /\ Len(pair.games) = pair.num_games
    /\ pair' = [pair EXCEPT !.pc = "returned",
                            !.score = Score(pair.tally, pair.num_games)]
    /\ UNCHANGED <<boardVars, nodeVars, game, rerun, search>>

\* run_tournament calls _run_pair_parallel: it returns 0.0 for no games, and
\* otherwise submits every game to the pool
PairCallParallel ==
    /\ pair.pc = "call"
    /\ UseParallel(pair.parallel_workers)
    /\ pair' = IF pair.num_games = 0
               THEN [pair EXCEPT !.pc = "returned",
                                 !.score = [num |-> 0, den |-> 1]]
               ELSE [pair EXCEPT !.pc = "collect",
                                 !.games = [i \in 1 .. pair.num_games |->
                                               NewGame(pair, i - 1, "queued")]]
    /\ UNCHANGED <<boardVars, nodeVars, game, rerun, search>>

Running(p) == { i \in 1 .. Len(p.games) : p.games[i].status = "running" }
Queued(p)  == { i \in 1 .. Len(p.games) : p.games[i].status = "queued" }

\* a free worker of the pool takes the oldest game still queued
WorkerStart(i) ==
    /\ pair.pc = "collect"
    /\ i \in Queued(pair) /\ \A j \in Queued(pair) : i <= j
    /\ Cardinality(Running(pair)) < pair.parallel_workers
    /\ pair' = [pair EXCEPT !.games[i].status = "running"]
    /\ UNCHANGED <<boardVars, nodeVars, game, rerun, search>>

\* _play_game_worker returns in a worker: the future of game i is done
WorkerFinish(i, winner) ==
    /\ pair.pc = "collect"
    /\ i \in Running(pair)
    /\ winner \in Winners(pair.players)
    /\ pair' = [pair EXCEPT !.games[i].status = "done",
                            !.games[i].winner = winner,
                            !.finished = Append(pair.finished, i)]
    /\ UNCHANGED <<boardVars, nodeVars, game, rerun, search>>

\* one pass of `for is_red, future in zip(row_is_red_flags, futures)`:
\* future.result() waits until that game is done
PairCollect ==
    /\ pair.pc = "collect"
    /\ pair.collected < pair.num_games
    /\ LET k == pair.collected + 1
           f == NextFuture(pair, k)
       IN  /\ f \in 1 .. Len(pair.games)
           /\ pair.games[f].status = "done"
           /\ pair' = [pair EXCEPT
                         !.collected = k,
                         !.tally = Tally(pair.tally, RowIsRed(k - 1),
                                         pair.games[f].winner)]
    /\ UNCHANGED <<boardVars, nodeVars, game, rerun, search>>

\* the return of _run_pair_parallel
PairReturnParallel ==
    /\ pair.pc = "collect"
    /\ pair.collected = pair.num_games
    /\ pair' = [pair EXCEPT !.pc = "returned",
                            !.score = Score(pair.tally, pair.num_games)]
    /\ UNCHANGED <<boardVars, nodeVars, game, rerun, search>>

PairNext ==
    \/ PairCallSequential
    \/ \E winner \in {"R", "Y", "Draw"} : PairPlayGame(winner)
    \/ PairReturnSequential
    \/ PairCallParallel
    \/ \E i \in 1 .. MaxGames + 1 : WorkerStart(i)
    \/ \E i \in 1 .. MaxGames + 1 : \E winner \in {"R", "Y", "Draw"} :
          WorkerFinish(i, winner)
    \/ PairCollect
    \/ PairReturnParallel

PairSpec == PairInit /\ [][PairNext]_vars

-----------------------------------------------------------------------------
(* The engines: PMCGSAlgorithm and UCTAlgorithm, select_move and             *)
(* _run_simulation.  The two differ in the selection phase only.            *)

\* num_simulations is 0 .. MaxSims
MaxSims == 4

\* Positions select_move is called on.  A rollout plays random moves to the
\* end of the game, so the positions explored are a few moves from the end.
SearchStacks ==
    { \* two cells open: Yellow wins in column 3, anything else is a draw
      << <<"R","Y","R","Y","R","Y">>, <<"R","Y","R","Y","R","Y">>,
         <<"R","Y","R","Y","R","Y">>, <<"Y","R","Y","R","Y">>,
         <<"R","Y","R","Y","R","Y">>, <<"R","Y","R","Y","R","Y">>,
         <<"R","Y","R","Y","R">> >>,
      \* three columns a move short of full
      << <<"R","Y","R","Y","R","Y">>, <<"R","Y","R","Y","R","Y">>,
         <<"R","Y","R","Y","R">>,     <<"Y","R","Y","R","Y">>,
         <<"R","Y","R","Y","R","Y">>, <<"R","Y","R","Y","R","Y">>,
         <<"R","Y","R","Y","R">> >>,
      \* four cells open in two columns
      << <<"R","Y","R","Y","R","Y">>, <<"R","Y","R","Y","R","Y">>,
         <<"R","Y","R","Y","R","Y">>, <<"Y","R","Y">>,
         <<"R","Y","R","Y","R","Y">>, <<"R","Y","R","Y","R","Y">>,
         <<"R","Y","R","Y","R">> >>,
      \* five cells open in three columns
      << <<"R","Y","R","Y","R","Y">>, <<"R","Y","R","Y","R","Y">>,
         <<"R","Y","R","Y","R">>,     <<"Y","R","Y","R">>,
         <<"R","Y","R","Y","R","Y">>, <<"R","Y","R","Y","R","Y">>,
         <<"R","Y","R","Y">> >>,
      \* the full board: a draw, no legal move
      << <<"R","Y","R","Y","R","Y">>, <<"R","Y","R","Y","R","Y">>,
         <<"R","Y","R","Y","R","Y">>, <<"Y","R","Y","R","Y","R">>,
         <<"R","Y","R","Y","R","Y">>, <<"R","Y","R","Y","R","Y">>,
         <<"R","Y","R","Y","R","Y">> >>,
      \* Yellow has four stacked in column 0 and every column is open
      << <<"Y","Y","Y","Y">>, <<"R","R","R">>, <<>>, <<>>, <<>>, <<>>, <<>> >> }

SearchBoards == { StartBoard(st) : st \in SearchStacks }

Engines == {"PMCGS", "UCT"}

\* mutant: a node counts one visit when it is made
NewNodeVisited(parent, move, player_to_move) ==
    [parent         |-> parent,
     move           |-> move,
     children       |-> <<>>,
     wi             |-> 0,
     ni             |-> 1,
     untried_moves  |-> <<>>,
     player_to_move |-> player_to_move]

\* MCTSNode(parent, move, player_to_move); parent 0 and move -1 stand for
\* None.  children lists the entries of the dict in insertion order, each
\* with its key and the index of the child node in the tree.
NewNode(parent, move, player_to_move) ==
    [parent         |-> parent,
     move           |-> move,
     children       |-> <<>>,
     wi             |-> 0,
     ni             |-> 0,
     untried_moves  |-> <<>>,
     player_to_move |-> player_to_move]

\* MCTSNode.is_fully_expanded
IsFullyExpanded(n) == Len(n.untried_moves) = 0

\* mutant: the move stays in the list
RemoveNothing(moves, move) == moves

\* untried_moves.remove(move)
RemoveMove(moves, move) == SelectSeq(moves, LAMBDA m : m # move)

\* node.children[move] = new_node
SetChild(children, move, new_node) ==
    IF \E i \in 1 .. Len(children) : children[i].key = move
    THEN [i \in 1 .. Len(children) |->
            IF children[i].key = move
            THEN [key |-> move, node |-> new_node] ELSE children[i]]
    ELSE Append(children, [key |-> move, node |-> new_node])

\* the node with index id as best_child and best_child_final read it: its
\* own player and visits, and key, wi, ni of the entries of its children dict
\* in insertion order
NodeView(tree, id) ==
    [player_to_move |-> tree[id].player_to_move,
     ni             |-> tree[id].ni,
     children       |-> [i \in 1 .. Len(tree[id].children) |->
                            [move |-> tree[id].children[i].key,
                             wi   |-> tree[tree[id].children[i].node].wi,
                             ni   |-> tree[tree[id].children[i].node].ni]]]

\* mutant: the copy shares grid and heights with the board it was made from
BoardCopyShared(b) == [grid |-> b.grid, heights |-> b.heights, shared |-> TRUE]

\* Board.copy: a new board whose rows and heights are lists of their own
BoardCopy(b) == [grid |-> b.grid, heights |-> b.heights, shared |-> FALSE]

\* current_board.make_move(col, player)
ScratchMove(cur, col, player) ==
    LET r == MakeMove([grid |-> cur.grid, heights |-> cur.heights], col, player)
    IN  [grid |-> r.grid, heights |-> r.heights, shared |-> cur.shared]

\* self.board after a write to current_board: it changes only if the two
\* boards share their lists
GivenBoard(cur) ==
    /\ grid' = IF cur.shared THEN cur.grid ELSE grid
    /\ heights' = IF cur.shared THEN cur.heights ELSE heights

\* the children the selection phase may step to from the last node of the
\* path: PMCGS draws a key of the children dict, UCT calls best_child
SelectionChoices(algo, tree, id) ==
    IF algo = "PMCGS"
    THEN { [kind |-> "child", idx |-> i, move |-> tree[id].children[i].key] :
              i \in 1 .. Len(tree[id].children) }
    ELSE BestChild(NodeView(tree, id))

\* the column the selection phase plays for the chosen entry: PMCGS plays
\* the key it drew, UCT plays best_child.move
SelectedMove(algo, tree, id, idx) ==
    IF algo = "PMCGS"
    THEN tree[id].children[idx].key
    ELSE tree[tree[id].children[idx].node].move

\* a make_move on the scratch board as the simulation records it: the player
\* of the token, the node the move was made from (0 in the rollout) and the
\* value make_move returned
Placed(cur, col, player, from) ==
    [player |-> player,
     node   |-> from,
     ret    |-> MakeMove([grid |-> cur.grid, heights |-> cur.heights],
                         col, player).ret]

\* mutant: the value is negated at the nodes where Red is to move
BackpropagateSigned(tree, path, value) ==
    [id \in 1 .. Len(tree) |->
        IF \E k \in 1 .. Len(path) : path[k] = id
        THEN [tree[id] EXCEPT
                !.ni = tree[id].ni + 1,
                !.wi = tree[id].wi + (IF tree[id].player_to_move = "Y"
                                      THEN value ELSE 0 - value)]
        ELSE tree[id]]

\* mutant: the last node of the path is left out
BackpropagateSkipsLeaf(tree, path, value) ==
    [id \in 1 .. Len(tree) |->
        IF \E k \in 1 .. Len(path) - 1 : path[k] = id
        THEN [tree[id] EXCEPT !.ni = tree[id].ni + 1, !.wi = tree[id].wi + value]
        ELSE tree[id]]

\* for node in reversed(path): node.ni += 1; node.wi += value
Backpropagate(tree, path, value) ==
    [id \in 1 .. Len(tree) |->
        IF \E k \in 1 .. Len(path) : path[k] = id
        THEN [tree[id] EXCEPT !.ni = tree[id].ni + 1, !.wi = tree[id].wi + value]
        ELSE tree[id]]

SearchInit ==
    /\ \E b \in SearchBoards : \E algo \in Engines : \E player \in Players :
       \E num_simulations \in 0 .. MaxSims :
          /\ grid = b.grid
          /\ heights = b.heights
          /\ search = [pc              |-> "loop",
                       algo            |-> algo,
                       player          |-> player,
                       num_simulations |-> num_simulations,
                       sims            |-> 0,
                       tree            |-> << [NewNode(0, -1, player) EXCEPT
                                                 !.untried_moves =
                                                     GetLegalMoves(b.heights)] >>,
                       path            |-> <<>>,
                       placed          |-> <<>>,
                       cur             |-> BoardCopy(EmptyBoard),
                       is_terminal     |-> FALSE,
                       value           |-> 0,
                       current_player  |-> player,
                       final_move      |-> -1]
    /\ pre = [grid |-> grid, heights |-> heights]
    /\ call = NoCall
    /\ nops = 0
    /\ node = IdleNode
    /\ sel = NoSel
    /\ game = NoRun /\ rerun = NoRun /\ pair = NoRun

\* _run_simulation starts: current_board = self.board.copy(); path = [root]
SimStart ==
    /\ search.pc = "loop"
    /\ search.sims < search.num_simulations
    /\ search' = [search EXCEPT
                    !.pc = "select",
                    !.cur = BoardCopy([grid |-> grid, heights |-> heights]),
                    !.path = <<1>>,
                    !.placed = <<>>]
    /\ UNCHANGED <<boardVars, nodeVars, game, rerun, pair>>

\* mutant: the descent goes on wherever there is a child
SelectionGoesOnAnyChild(tree, path) == tree[path[Len(path)]].children # <<>>

\* the condition of the selection loop
SelectionGoesOn(tree, path) ==
    /\ IsFullyExpanded(tree[path[Len(path)]])
    /\ tree[path[Len(path)]].children # <<>>

\* one pass of the selection loop: a child is chosen, its move is made on the
\* scratch board and it joins the path; UCT leaves the loop if best_child
\* returns None or a child whose move is None
SelectStep ==
    /\ search.pc = "select"
    /\ SelectionGoesOn(search.tree, search.path)
    /\ LET id == search.path[Len(search.path)]
       IN  \E c \in SelectionChoices(search.algo, search.tree, id) :
              IF c.kind = "child"
              THEN LET move == SelectedMove(search.algo, search.tree, id, c.idx)
                       cur  == ScratchMove(search.cur, move,
                                           search.tree[id].player_to_move)
                   IN  IF move = -1
                       THEN /\ search' = [search EXCEPT !.pc = "expand"]
                            /\ UNCHANGED <<grid, heights>>
                       ELSE /\ search' = [search EXCEPT
                                   !.cur = cur,
                                   !.path = Append(search.path,
                                              search.tree[id].children[c.idx].node),
                                   !.placed = Append(search.placed,
                                       Placed(search.cur, move,
                                              search.tree[id].player_to_move, id))]
                            /\ GivenBoard(cur)
              ELSE /\ search' = [search EXCEPT
                                   !.pc = IF c.kind = "None" THEN "expand"
                                          ELSE "raised"]
                   /\ UNCHANGED <<grid, heights>>
    /\ UNCHANGED <<call, pre, nops, nodeVars, game, rerun, pair>>

\* the selection loop ends at a node with an untried move or without children
SelectEnd ==
    /\ search.pc = "select"
    /\ ~SelectionGoesOn(search.tree, search.path)
    /\ search' = [search EXCEPT !.pc = "expand"]
    /\ UNCHANGED <<boardVars, nodeVars, game, rerun, pair>>

\* is_terminal, value = current_board.is_terminal(), then the expansion: on
\* a board that is not terminal, at a node with an untried move, one untried
\* move is taken at random, made on the scratch board and given a new node
Expand ==
    /\ search.pc = "expand"
    /\ LET id == search.path[Len(search.path)]
           n  == search.tree[id]
           t  == IsTerminal(search.cur.grid, search.cur.heights)
       IN  IF ~t[1] /\ ~IsFullyExpanded(n)
           THEN \E i \in 1 .. Len(n.untried_moves) :
                   LET move     == n.untried_moves[i]
                       cur      == ScratchMove(search.cur, move, n.player_to_move)
                       new_id   == Len(search.tree) + 1
                       new_node == [NewNode(id, move, Opponent(n.player_to_move))
                                      EXCEPT !.untried_moves =
                                                 GetLegalMoves(cur.heights)]
                       t2       == IsTerminal(cur.grid, cur.heights)
                   IN  /\ search' = [search EXCEPT
                              !.pc = IF t2[1] THEN "backprop" ELSE "rollout",
                              !.tree = Append(
                                  [search.tree EXCEPT
                                     ![id].untried_moves = RemoveMove(n.untried_moves, move),
                                     ![id].children = SetChild(n.children, move, new_id)],
                                  new_node),
                              !.path = Append(search.path, new_id),
                              !.placed = Append(search.placed,
                                  Placed(search.cur, move, n.player_to_move, id)),
                              !.cur = cur,
                              !.is_terminal = t2[1],
                              !.value = t2[2],
                              !.current_player = new_node.player_to_move]
                       /\ GivenBoard(cur)
           ELSE /\ search' = [search EXCEPT
                                !.pc = IF t[1] THEN "backprop" ELSE "rollout",
                                !.is_terminal = t[1],
                                !.value = t[2],
                                !.current_player = n.player_to_move]
                /\ UNCHANGED <<grid, heights>>
    /\ UNCHANGED <<call, pre, nops, nodeVars, game, rerun, pair>>

\* one pass of the rollout loop: a random legal move for the side to move
RolloutStep ==
    /\ search.pc = "rollout"
    /\ LET legal_moves == GetLegalMoves(search.cur.heights)
       IN  IF legal_moves = <<>>
           THEN /\ search' = [search EXCEPT !.pc = "backprop", !.value = 0]
                /\ UNCHANGED <<grid, heights>>
           ELSE \E i \in 1 .. Len(legal_moves) :
                   LET cur == ScratchMove(search.cur, legal_moves[i],
                                          search.current_player)
                       t   == IsTerminal(cur.grid, cur.heights)
                   IN  /\ search' = [search EXCEPT
                              !.pc = IF t[1] THEN "backprop" ELSE "rollout",
                              !.cur = cur,
                              !.placed = Append(search.placed,
                                  Placed(search.cur, legal_moves[i],
                                         search.current_player, 0)),
                              !.current_player = Opponent(search.current_player),
                              !.is_terminal = t[1],
                              !.value = t[2]]
                       /\ GivenBoard(cur)
    /\ UNCHANGED <<call, pre, nops, nodeVars, game, rerun, pair>>

\* the backpropagation, after which the simulation is over
Backprop ==
    /\ search.pc = "backprop"
    /\ search' = [search EXCEPT
                    !.pc = "loop",
                    !.tree = Backpropagate(search.tree, search.path, search.value),
                    !.sims = search.sims + 1]
    /\ UNCHANGED <<boardVars, nodeVars, game, rerun, pair>>

\* after the last simulation: final_move, _ = root.best_child_final()
SearchReturn ==
    /\ search.pc = "loop"
    /\ search.sims = search.num_simulations
    /\ search' = [search EXCEPT
                    !.pc = "returned",
                    !.final_move = BestChildFinal(NodeView(search.tree, 1)).move]
    /\ UNCHANGED <<boardVars, nodeVars, game, rerun, pair>>

SearchNext ==
    \/ SimStart
    \/ SelectStep
    \/ SelectEnd
    \/ Expand
    \/ RolloutStep
    \/ Backprop
    \/ SearchReturn

SearchSpec == SearchInit /\ [][SearchNext]_vars

-----------------------------------------------------------------------------
(* Properties of the Board (checked under BoardSpec) *)

\* the token cells of column c, read from the grid alone
Occupied(g, c) == { r \in Rows : g[r][c] # "O" }

\* the topmost occupied row of a non-empty column, read from the grid alone
TopRow(g, c) == CHOOSE r \in Occupied(g, c) : \A r2 \in Occupied(g, c) : r <= r2

\* four contiguous cells holding player on a line of direction <<dr, dc>>
\* starting at <<r, c>>, all of them inside the grid
LineAt(g, player, r, c, dr, dc) ==
    \A i \in 0 .. 3 :
        /\ r + i * dr \in Rows
        /\ c + i * dc \in Cols
        /\ g[r + i * dr][c + i * dc] = player

\* horizontal, vertical, down-right, down-left
Directions == { <<0, 1>>, <<1, 0>>, <<1, 1>>, <<1, -1>> }

HasFour(g, player) ==
    \E r \in Rows : \E c \in Cols : \E d \in Directions :
        LineAt(g, player, r, c, d[1], d[2])

\* C1: after any sequence of make_move and undo_move calls, every heights[c]
\* is in 0..6, equals the number of non-empty cells of column c, and those
\* cells are exactly the bottom heights[c] rows: no token sits above an
\* empty cell.
C1_HeightsMatchGrid ==
    \A c \in Cols :
        /\ heights[c] \in 0 .. ROWS
        /\ heights[c] = Cardinality(Occupied(grid, c))
        /\ Occupied(grid, c) = (ROWS - heights[c]) .. (ROWS - 1)

\* C1 witness: both kinds of call have been made, accepted and rejected
\* ones among them, and the board holds a full column, a partly filled
\* column and an empty one.
C1_Witness ==
    /\ nops >= 2
    /\ call.op = "undo_move" /\ call.ret = "True"
    /\ \E c \in Cols : heights[c] = ROWS
    /\ \E c \in Cols : heights[c] \in 1 .. (ROWS - 1)
    /\ \E c \in Cols : heights[c] = 0

\* C2: make_move(col, player) on a column that is not full, followed at
\* once by undo_move(col), returns true both times and leaves grid and
\* heights as they were before the make_move.
C2_MakeUndoInverse ==
    [][ ( /\ call.op = "make_move"
          /\ call.col \in Cols
          /\ pre.heights[call.col] < ROWS
          /\ call'.op = "undo_move"
          /\ call'.col = call.col )
        => ( /\ call.ret = "True"
             /\ call'.ret = "True"
             /\ grid' = pre.grid
             /\ heights' = pre.heights ) ]_vars

\* C2 witness: an undo_move(col) that directly followed a successful
\* make_move(col, _) on a board that already held tokens.
C2_Witness ==
    /\ call.op = "undo_move"
    /\ call.after_make
    /\ call.col \in Cols
    /\ heights[call.col] > 0

\* C3: is_valid_move(col) is true exactly for 0 <= col < 7 with
\* heights[col] < 6, and get_legal_moves() lists exactly those columns, each
\* once, in ascending order (0..6 on the empty board).
C3_LegalMoves ==
    LET lm == GetLegalMoves(heights)
    IN  /\ \A col \in UndoCols :
              IsValidMove(heights, col) <=> (col \in Cols /\ heights[col] < 6)
        /\ \A i \in 1 .. Len(lm) : \A j \in 1 .. Len(lm) : i < j => lm[i] < lm[j]
        /\ { lm[i] : i \in 1 .. Len(lm) } = { c \in Cols : heights[c] < 6 }
        /\ (\A c \in Cols : heights[c] = 0) => lm = <<0, 1, 2, 3, 4, 5, 6>>

\* C3 witness: a board reached by a call on which the last column is open
\* and some other column is full.
C3_Witness ==
    /\ call.op = "make_move" /\ call.ret = "True"
    /\ heights[COLS - 1] < ROWS
    /\ \E c \in Cols : heights[c] = ROWS

\* C4: make_move with a column outside 0..6 or a column holding 6 tokens
\* returns false, raises nothing and changes nothing; otherwise it returns
\* true, writes player at row 5 - heights[col] of col and adds 1 to
\* heights[col], changing nothing else.
C4_MakeMoveEffect ==
    call.op = "make_move" =>
        IF call.col \notin Cols \/ pre.heights[call.col] = 6
        THEN /\ call.ret = "False"
             /\ grid = pre.grid
             /\ heights = pre.heights
        ELSE /\ call.ret = "True"
             /\ \A r \in Rows : \A c \in Cols :
                    grid[r][c] = IF r = 5 - pre.heights[call.col] /\ c = call.col
                                 THEN call.player
                                 ELSE pre.grid[r][c]
             /\ \A c \in Cols :
                    heights[c] = IF c = call.col THEN pre.heights[c] + 1
                                 ELSE pre.heights[c]

\* C4 witness: a make_move into a column that holds 6 tokens was rejected.
C4_Witness ==
    /\ call.op = "make_move"
    /\ call.ret = "False"
    /\ call.col \in Cols
    /\ heights[call.col] = ROWS

\* C5: undo_move(col), col in 0..6: on an empty column it returns false and
\* changes nothing; otherwise it returns true, empties the topmost occupied
\* cell of that column, takes 1 off heights[col] and changes no other cell
\* and no other height.
C5_UndoMoveEffect ==
    (call.op = "undo_move" /\ call.col \in Cols) =>
        IF Occupied(pre.grid, call.col) = {}
        THEN /\ call.ret = "False"
             /\ grid = pre.grid
             /\ heights = pre.heights
        ELSE /\ call.ret = "True"
             /\ \A r \in Rows : \A c \in Cols :
                    grid[r][c] = IF r = TopRow(pre.grid, call.col) /\ c = call.col
                                 THEN "O"
                                 ELSE pre.grid[r][c]
             /\ \A c \in Cols :
                    heights[c] = IF c = call.col THEN pre.heights[c] - 1
                                 ELSE pre.heights[c]

\* C5 witness: an accepted undo_move on a column that held several tokens,
\* beside other non-empty columns.
C5_Witness ==
    /\ call.op = "undo_move"
    /\ call.ret = "True"
    /\ call.col \in Cols
    /\ pre.heights[call.col] >= 2
    /\ \E c \in Cols : c # call.col /\ heights[c] > 0

\* C6: check_win(p) is true exactly when four contiguous cells on a
\* horizontal, vertical, down-right or down-left line inside the grid all
\* hold p.
C6_CheckWin ==
    \A p \in Players : CheckWin(grid, p) <=> HasFour(grid, p)

\* C6 witness: a move completed a down-left diagonal starting in column 3
\* for one player while the opponent has no four in a row.
C6_Witness ==
    /\ call.op = "make_move" /\ call.ret = "True"
    /\ LineAt(grid, call.player, 2, 3, 1, -1)
    /\ ~LineAt(pre.grid, call.player, 2, 3, 1, -1)
    /\ CheckWin(grid, call.player)
    /\ ~CheckWin(grid, Opponent(call.player))

\* C7: is_terminal() is (true, +1) if Yellow has four in a row (also when Red
\* has too), (true, -1) if only Red has, (true, 0) if neither has and all
\* seven columns are full, and (false, _) otherwise.
C7_IsTerminal ==
    LET t == IsTerminal(grid, heights)
        y == HasFour(grid, "Y")
        r == HasFour(grid, "R")
        full == \A c \in Cols : heights[c] = 6
    IN  /\ y => t = <<TRUE, 1>>
        /\ (r /\ ~y) => t = <<TRUE, -1>>
        /\ (~r /\ ~y /\ full) => t = <<TRUE, 0>>
        /\ (~r /\ ~y /\ ~full) => t[1] = FALSE

\* C7 witness: a move filled the last open cell and nobody has four in a
\* row.
C7_Witness ==
    /\ call.op = "make_move" /\ call.ret = "True"
    /\ \A c \in Cols : heights[c] = 6
    /\ ~HasFour(grid, "Y")
    /\ ~HasFour(grid, "R")

-----------------------------------------------------------------------------
(* Properties of the selection rules (checked under NodeSpec) *)

Kids == 1 .. Len(node.children)

\* child i's average value is at least child j's: wi/ni compared as
\* fractions, both visit counts positive
AvgAtLeast(i, j) ==
    node.children[i].wi * node.children[j].ni
        >= node.children[j].wi * node.children[i].ni

\* C8: whenever the node has a child with zero visits, best_child returns
\* a zero-visit child, whatever the statistics of the visited children and
\* whoever is to move.
C8_UnvisitedFirst ==
    (sel.op = "best_child" /\ \E i \in Kids : node.children[i].ni = 0) =>
        /\ sel.kind = "child"
        /\ sel.idx \in Kids
        /\ node.children[sel.idx].ni = 0
        /\ sel.move = node.children[sel.idx].move

\* C8 witness: best_child ran on a node with one unvisited child that is
\* not the first, beside two visited children that won every visit, with
\* Yellow to move.
C8_Witness ==
    /\ sel.op = "best_child"
    /\ node.player_to_move = "Y"
    /\ Len(node.children) = 3
    /\ node.children[1].ni = 2 /\ node.children[1].wi = 2
    /\ node.children[2].ni = 0
    /\ node.children[3].ni = 2 /\ node.children[3].wi = 2

\* C9: when every child has at least one visit, best_child returns the
\* child of maximum score for Yellow and of minimum score for Red, and among
\* children sharing that score the first in iteration order; the result is
\* fully determined by the node.
C9_UcbExtremeFirst ==
    (sel.op = "best_child" /\ Kids # {} /\ \A i \in Kids : node.children[i].ni >= 1) =>
        /\ sel.kind = "child"
        /\ sel.idx \in Kids
        /\ sel.move = node.children[sel.idx].move
        /\ \A j \in Kids :
              IF node.player_to_move = "Y"
              THEN Ucb(node, j) <= Ucb(node, sel.idx)
              ELSE Ucb(node, j) >= Ucb(node, sel.idx)
        /\ \A j \in Kids : j < sel.idx => Ucb(node, j) # Ucb(node, sel.idx)

\* C9 witness: best_child ran with Red to move on three visited children
\* of different visit counts; the second was returned and the third has
\* the same score.
C9_Witness ==
    /\ sel.op = "best_child"
    /\ node.player_to_move = "R"
    /\ Len(node.children) = 3
    /\ \A i \in Kids : node.children[i].ni >= 1
    /\ node.children[1].ni # node.children[2].ni
    /\ sel.idx = 2
    /\ Ucb(node, 3) = Ucb(node, 2)
    /\ Ucb(node, 1) > Ucb(node, 2)

\* C10: best_child_final looks only at children with at least one visit and
\* returns the move of the one with the greatest wi/ni for Yellow, the least
\* for Red, the first such child on ties; it returns (-1, None) exactly when
\* no child has a visit.
C10_FinalSelection ==
    sel.op = "best_child_final" =>
        LET visited == { i \in Kids : node.children[i].ni >= 1 }
        IN  IF visited = {}
            THEN sel.kind = "None" /\ sel.move = -1
            ELSE /\ sel.kind = "child"
                 /\ sel.idx \in visited
                 /\ sel.move = node.children[sel.idx].move
                 /\ sel.move # -1
                 /\ \A j \in visited :
                       IF node.player_to_move = "Y"
                       THEN AvgAtLeast(sel.idx, j)
                       ELSE AvgAtLeast(j, sel.idx)
                 /\ \A j \in visited : j < sel.idx =>
                       ~(AvgAtLeast(sel.idx, j) /\ AvgAtLeast(j, sel.idx))

\* C10 witness: best_child_final ran with Red to move on an unvisited first
\* child and two visited children of equal average and different visit
\* counts; the second child's move was returned.
C10_Witness ==
    /\ sel.op = "best_child_final"
    /\ node.player_to_move = "R"
    /\ Len(node.children) = 3
    /\ node.children[1].ni = 0
    /\ node.children[2].ni = 1 /\ node.children[2].wi = -1
    /\ node.children[3].ni = 2 /\ node.children[3].wi = -2
    /\ sel.idx = 2
    /\ sel.move = node.children[2].move

-----------------------------------------------------------------------------
(* Properties of the uniform-random selector (checked under BoardSpec) *)

\* the columns whose top cell is empty, read from the grid alone
OpenColumns(g) == { c \in Cols : g[0][c] = "O" }

\* C12: URAlgorithm.select_move returns -1 exactly when the board has no legal
\* move and otherwise a legal column; every legal column is a possible
\* result; the call leaves the board as it was.
C12_URSelectMove ==
    /\ call.op = "select_move" =>
          /\ grid = pre.grid /\ heights = pre.heights
          /\ (call.col = -1) <=> (OpenColumns(grid) = {})
          /\ call.col # -1 => call.col \in OpenColumns(grid)
    /\ nops < MaxOps =>
          /\ \A c \in OpenColumns(grid) : ENABLED DoURSelectMove(c, "R")
          /\ OpenColumns(grid) = {} => ENABLED DoURSelectMove(-1, "R")

\* a legal column other than the first one is returned while another column
\* is full
C12_Witness ==
    /\ call.op = "select_move"
    /\ call.col \in OpenColumns(grid)
    /\ \E c \in OpenColumns(grid) : c < call.col
    /\ \E c \in Cols : c \notin OpenColumns(grid)

-----------------------------------------------------------------------------
(* Properties of the game loop (checked under GameSpec and GameLiveSpec) *)

\* the number of cells of the grid that hold player's token
CountTokens(g, player) ==
    Cardinality({ rc \in Rows \X Cols : g[rc[1]][rc[2]] = player })

\* a line of four for either side, or no open column, read from the grid alone
BoardTerminal(g) == HasFour(g, "R") \/ HasFour(g, "Y") \/ OpenColumns(g) = {}

\* the answer of the last selector asked is -1, or is no column of the board,
\* or names a column that was full when it was asked
BadAnswer ==
    \/ game.last.move = -1
    \/ game.last.move \notin Cols
    \/ game.before.grid[0][game.last.move] # "O"

\* C13: when a selector answers -1 or a column the board rejects, the game
\* returns at once with the other side as winner, the board is as it was
\* before that turn, and no selector is asked again.
C13_ForfeitOnBadMove ==
    /\ (game.turns > 0 /\ BadAnswer) =>
          /\ game.pc = "returned"
          /\ game.result \in Players /\ game.result # game.last.player
          /\ game.grid = game.before.grid
          /\ game.heights = game.before.heights
    /\ game.pc = "returned" => ~ENABLED GameNext

\* Yellow's selector names a full column and Red is given the game
C13_Witness ==
    /\ game.pc = "returned"
    /\ game.last.player = "Y"
    /\ game.last.move \in Cols
    /\ game.before.grid[0][game.last.move] # "O"
    /\ game.result = "R"

\* C14: the game starts on the empty board with Red to move; Red's selector
\* is asked on Red's turns and Yellow's on Yellow's, in strict alternation;
\* no selector is asked on a terminal board; the game goes on while the board
\* is not terminal and returns 'Y', 'R' or 'Draw' for a Yellow win, a Red win
\* or a full board at the first move that makes the board terminal.
C14_GameProtocol ==
    /\ game.turns = 0 =>
          /\ game.grid = EmptyGrid /\ game.heights = EmptyHeights
          /\ game.current_player = "R" /\ game.pc = "loop"
    /\ game.turns > 0 =>
          /\ game.last.player = (IF game.turns % 2 = 1 THEN "R" ELSE "Y")
          /\ game.last.algo = (IF game.last.player = "R" THEN 1 ELSE 2)
          /\ ~game.last.on_terminal
          /\ ~BoardTerminal(game.before.grid)
          /\ game.last.placed =>
                /\ game.nmoves = game.turns
                /\ CountTokens(game.grid, "R") = (game.nmoves + 1) \div 2
                /\ CountTokens(game.grid, "Y") = game.nmoves \div 2
                /\ game.grid[TopRow(game.grid, game.last.move)][game.last.move]
                     = game.last.player
    /\ game.pc = "loop" =>
          /\ ~BoardTerminal(game.grid)
          /\ game.result = "-"
          /\ game.current_player = (IF game.turns % 2 = 0 THEN "R" ELSE "Y")
    /\ (game.pc = "returned" /\ game.last.placed) =>
          /\ BoardTerminal(game.grid)
          /\ game.result = (IF HasFour(game.grid, "Y") THEN "Y"
                            ELSE IF HasFour(game.grid, "R") THEN "R"
                            ELSE "Draw")

\* Yellow's fourth move completes a line and the game returns 'Y'
C14_Witness ==
    /\ game.pc = "returned"
    /\ game.last.placed /\ game.last.player = "Y"
    /\ game.nmoves = 8
    /\ HasFour(game.grid, "Y")
    /\ game.result = "Y"

\* C15: every game returns, with a result in {'R', 'Y', 'Draw'}, whatever the
\* selectors answer; it makes at most 42 successful moves; every turn either
\* places exactly one piece or ends the game.
C15_GameTerminates ==
    /\ [](/\ game.nmoves <= ROWS * COLS
          /\ CountTokens(game.grid, "R") + CountTokens(game.grid, "Y") = game.nmoves
          /\ game.pc = "returned" => game.result \in {"R", "Y", "Draw"})
    /\ [][\/ /\ game'.nmoves = game.nmoves + 1
             /\ CountTokens(game'.grid, "R") + CountTokens(game'.grid, "Y")
                  = game.nmoves + 1
          \/ /\ game'.pc = "returned"
             /\ game'.nmoves = game.nmoves]_vars
    /\ <>(game.pc = "returned")

\* the 42nd move fills the board and the game is drawn
C15_Witness ==
    /\ game.pc = "returned"
    /\ game.nmoves = ROWS * COLS
    /\ game.last.placed
    /\ game.result = "Draw"

-----------------------------------------------------------------------------
(* Properties of seeded games (checked under SeedSpec) *)

\* both calls of the simulator have returned
BothGamesPlayed == rerun.pc = "call" /\ Len(rerun.games) = 2

\* C16 as stated: two runs of the single-game simulator with the same two
\* configurations and the same seed argument make the same moves and have the
\* same winner, whatever the generator state was before each run.
C16_SameSeedSameGame ==
    BothGamesPlayed => rerun.games[1] = rerun.games[2]

\* C16, amended: two runs of _play_game_worker with the same two
\* configurations and the same seed, the seed not being None, make the same
\* moves and have the same winner, whatever the generator state was before
\* each run.
C16_SeededWorkerSameGame ==
    (BothGamesPlayed /\ rerun.sim = "_play_game_worker" /\ rerun.seed # NoSeed)
        => rerun.games[1] = rerun.games[2]

\* a seeded worker was called twice from two different generator states,
\* neither of them the state its seed sets, and played a game of ten moves
\* or more
C16_Witness ==
    /\ BothGamesPlayed
    /\ rerun.sim = "_play_game_worker" /\ rerun.seed # NoSeed
    /\ rerun.prior[1] # rerun.prior[2]
    /\ rerun.prior[1] # rerun.seed % RngStates
    /\ rerun.prior[2] # rerun.seed % RngStates
    /\ Len(rerun.games[1].moves) >= 10

-----------------------------------------------------------------------------
(* Properties of the pair runners (checked under PairSpec) *)

GameIds == 1 .. Len(pair.games)

\* the colour the row algorithm has in game i, read from the game itself
RowColour(i) ==
    IF pair.games[i].red = pair.row THEN "R" ELSE "Y"

\* games the row algorithm won, and games drawn
RowWonGames == { i \in GameIds : pair.games[i].winner = RowColour(i) }
DrawnGames  == { i \in GameIds : pair.games[i].winner = "Draw" }

\* C17: for a pairing of two different algorithms and N >= 1 games, a pair
\* runner plays exactly N games, the row algorithm as Red in the games of
\* even index and as Yellow in those of odd index; a game is a row win
\* exactly when its winner is the colour the row algorithm had; the result is
\* (row wins + 0.5 * draws) / N * 100, a number from 0 to 100.
C17_PairScore ==
    /\ pair.row # pair.col
    /\ \A i \in GameIds :
          /\ {pair.games[i].red, pair.games[i].yellow} = {pair.row, pair.col}
          /\ (pair.games[i].red = pair.row) <=> ((i - 1) % 2 = 0)
    /\ (pair.pc = "returned" /\ pair.num_games >= 1) =>
          /\ Len(pair.games) = pair.num_games
          /\ \A i \in GameIds : pair.games[i].winner \in {"R", "Y", "Draw"}
          /\ pair.tally.row_wins = Cardinality(RowWonGames)
          /\ pair.tally.draws = Cardinality(DrawnGames)
          /\ pair.score.den = pair.num_games
          /\ pair.score.num =
                100 * Cardinality(RowWonGames) + 50 * Cardinality(DrawnGames)
          /\ 0 <= pair.score.num
          /\ pair.score.num <= 100 * pair.score.den

\* the sequential runner has returned after a row win as Yellow, a row loss
\* as Red and a draw
C17_Witness ==
    /\ pair.pc = "returned"
    /\ ~UseParallel(pair.parallel_workers)
    /\ \E i \in RowWonGames : RowColour(i) = "Y"
    /\ \E i \in GameIds : RowColour(i) = "R" /\ pair.games[i].winner = "Y"
    /\ DrawnGames # {}

\* C18 as stated: between two copies of a strategy that always wins as Red,
\* N >= 1 games with alternating colours give exactly 50 for the row
\* algorithm of either pairing.
C18_StubScoresHalf ==
    (pair.pc = "returned" /\ pair.players = "red_wins" /\ pair.num_games >= 1)
        => pair.score.num = 50 * pair.score.den

\* C18, amended: between two copies of a strategy that always wins as Red,
\* N >= 1 games with alternating colours give exactly 50 for the row
\* algorithm of either pairing when N is even, and (N + 1) / (2 N) * 100
\* when N is odd.
C18_StubScoresHalfWhenEven ==
    (pair.pc = "returned" /\ pair.players = "red_wins" /\ pair.num_games >= 1)
        => /\ pair.score.den = pair.num_games
           /\ pair.num_games % 2 = 0 => pair.score.num = 50 * pair.num_games
           /\ pair.num_games % 2 = 1 => pair.score.num = 50 * (pair.num_games + 1)

\* four games between the two copies have been played and scored
C18_Witness ==
    /\ pair.pc = "returned"
    /\ pair.players = "red_wins"
    /\ pair.num_games = 4
    /\ Len(pair.games) = 4
    /\ pair.score.num = 50 * pair.score.den

\* the games in the order they finished are not in the order they were
\* submitted
OutOfOrder ==
    \E a, b \in 1 .. Len(pair.finished) : a < b /\ pair.finished[a] > pair.finished[b]

\* C19: whatever the order in which the workers finish, the parallel runner
\* counts each game once, with the flag of that game, so that its result is
\* fixed by the pairs (flag, winner) of the games and equals the result the
\* sequential runner computes from the same winners.
C19_ParallelScore ==
    (UseParallel(pair.parallel_workers) /\ pair.num_games >= 1) =>
        /\ pair.pc = "collect" =>
              pair.tally = SequentialTally([i \in GameIds |-> pair.games[i].winner],
                                           pair.collected)
        /\ pair.pc = "returned" =>
              /\ pair.collected = pair.num_games
              /\ pair.tally.row_wins =
                    Cardinality({ i \in GameIds :
                        \/ pair.games[i].is_red /\ pair.games[i].winner = "R"
                        \/ ~pair.games[i].is_red /\ pair.games[i].winner = "Y" })
              /\ pair.tally.draws = Cardinality(DrawnGames)
              /\ pair.score =
                    Score(SequentialTally([i \in GameIds |-> pair.games[i].winner],
                                          pair.num_games),
                          pair.num_games)

\* the parallel runner has returned after games that finished out of order
\* and whose winners differ
C19_Witness ==
    /\ pair.pc = "returned"
    /\ UseParallel(pair.parallel_workers)
    /\ OutOfOrder
    /\ \E i, j \in GameIds :
          /\ i < j /\ pair.games[i].winner # pair.games[j].winner
          /\ pair.games[i].is_red # pair.games[j].is_red
    /\ pair.tally.row_wins >= 1

-----------------------------------------------------------------------------
(* Properties of the engines (checked under SearchSpec) *)

\* C11: PMCGS and UCT select_move, called with at least one simulation on a
\* board that has at least one legal move, never return -1: they return a
\* legal column, 0 to 6.
C11_EngineReturnsLegalMove ==
    (/\ search.pc = "returned"
     /\ search.num_simulations >= 1
     /\ OpenColumns(pre.grid) # {})
        => /\ search.final_move # -1
           /\ search.final_move \in OpenColumns(pre.grid)

\* select_move has returned -1 after at least one simulation on a board on
\* which every column is open and Yellow has four in a line
C11_Witness ==
    /\ search.pc = "returned"
    /\ search.num_simulations >= 1
    /\ OpenColumns(pre.grid) = Cols
    /\ HasFour(pre.grid, "Y")
    /\ search.final_move = -1

\* C20: select_move of PMCGS and UCT leaves the board it was given as it
\* was; every simulation works on a deep copy of it, which equals the given
\* position when the simulation starts, and writes to that copy alone.
C20_GivenBoardUnchanged ==
    /\ grid = pre.grid /\ heights = pre.heights
    /\ search.pc # "loop" /\ search.pc # "returned" => ~search.cur.shared
    /\ (search.pc = "select" /\ Len(search.path) = 1) =>
          /\ search.cur.grid = pre.grid
          /\ search.cur.heights = pre.heights

\* select_move has returned after a simulation whose scratch board got
\* three pieces or more
C20_Witness ==
    /\ search.pc = "returned"
    /\ search.sims >= 2
    /\ CountTokens(search.cur.grid, "R") + CountTokens(search.cur.grid, "Y")
         >= CountTokens(grid, "R") + CountTokens(grid, "Y") + 3
    /\ grid = pre.grid

-----------------------------------------------------------------------------
(* undo_move with an index that is no column (checked under BoardSpec) *)

\* C30: undo_move called with a column index outside 0..6 fails as make_move
\* does for such an index: it returns false and leaves grid and heights as
\* they were, on every board and for every such index, negative ones included.
C30_UndoOutOfRangeFails ==
    (call.op = "undo_move" /\ call.col \notin Cols) =>
        /\ call.ret = "False"
        /\ grid = pre.grid
        /\ heights = pre.heights

\* undo_move(-1) has returned true and taken the top piece off column 6
C30_Witness ==
    /\ call.op = "undo_move"
    /\ call.col = -1
    /\ call.ret = "True"
    /\ heights[COLS - 1] = pre.heights[COLS - 1] - 1
    /\ grid # pre.grid

-----------------------------------------------------------------------------
(* Winners in the game loop (checked under GameSpec) *)

\* C26: on every board the game loop reaches (empty board, Red first, legal
\* moves in alternation, play stopping at the first terminal board) at most
\* one of check_win('R') and check_win('Y') is true, so that looking at
\* Yellow first in is_terminal never decides the result.
C26_AtMostOneWinner ==
    /\ ~(CheckWin(game.grid, "R") /\ CheckWin(game.grid, "Y"))
    /\ CheckWin(game.grid, "R") =>
           IsTerminal(game.grid, game.heights) = <<TRUE, 0 - 1>>

\* Red has won a game in which a selector left its line of play, with three
\* Yellow pieces stacked in a column
C26_Witness ==
    /\ game.pc = "returned"
    /\ game.off = 1
    /\ game.last.placed
    /\ CheckWin(game.grid, "R")
    /\ game.result = "R"
    /\ \E c \in Cols : \A r \in (ROWS - 3) .. (ROWS - 1) : game.grid[r][c] = "Y"

-----------------------------------------------------------------------------
(* Properties of one simulation (checked under SearchSpec) *)

\* the number of tokens on a grid
Tokens(g) == CountTokens(g, "R") + CountTokens(g, "Y")

\* the simulation that is running or has just ended made a rollout move
RolloutPlayed ==
    \E k \in 1 .. Len(search.placed) : search.placed[k].node = 0

\* C27: a board without a legal move is always reported terminal, so no
\* rollout ever takes the branch "no legal moves on a board that is not
\* terminal, value 0": the rollout loop is only entered or gone round again
\* on a board that has a legal move, and when the backpropagation starts
\* is_terminal() has returned true for the scratch board.
C27_RolloutEndsOnTerminal ==
    /\ GetLegalMoves(search.cur.heights) = <<>> =>
          IsTerminal(search.cur.grid, search.cur.heights)[1]
    /\ search.pc = "rollout" =>
          /\ ~search.is_terminal
          /\ GetLegalMoves(search.cur.heights) # <<>>
    /\ search.pc = "backprop" =>
          /\ search.is_terminal
          /\ IsTerminal(search.cur.grid, search.cur.heights)
               = <<TRUE, search.value>>

\* a rollout has filled the board without a winner and the backpropagation
\* is about to start
C27_Witness ==
    /\ search.pc = "backprop"
    /\ RolloutPlayed
    /\ GetLegalMoves(search.cur.heights) = <<>>
    /\ ~CheckWin(search.cur.grid, "R")
    /\ ~CheckWin(search.cur.grid, "Y")
    /\ search.value = 0

\* the nodes of the path of the simulation
OnPath(id) == \E k \in 1 .. Len(search.path) : search.path[k] = id

\* the outcome of a finished game from Yellow's side
Outcome(g) ==
    IF CheckWin(g, "Y") THEN 1 ELSE IF CheckWin(g, "R") THEN 0 - 1 ELSE 0

\* C24: the backpropagation adds exactly 1 to the visit count of every node
\* on the path and adds the same value v to the wi of each of them, whoever
\* is to move at the node; v is -1, 0 or +1, the outcome from Yellow's side of
\* the terminal scratch board; the nodes off the path, and every other
\* field of the nodes on it, stay as they were, and no node is added.
C24_Backpropagation ==
    [][search.pc = "backprop" =>
          /\ search.value \in {0 - 1, 0, 1}
          /\ search.value = Outcome(search.cur.grid)
          /\ Len(search'.tree) = Len(search.tree)
          /\ \A id \in 1 .. Len(search.tree) :
                LET old == search.tree[id]
                    new == search'.tree[id]
                IN  /\ new.ni = old.ni + (IF OnPath(id) THEN 1 ELSE 0)
                    /\ new.wi = old.wi + (IF OnPath(id) THEN search.value ELSE 0)
                    /\ new.parent = old.parent
                    /\ new.move = old.move
                    /\ new.children = old.children
                    /\ new.untried_moves = old.untried_moves
                    /\ new.player_to_move = old.player_to_move]_vars

\* the third simulation has gone from the root through a child to a new
\* grandchild, ended in a win and been backpropagated, with a visited node
\* off its path
C24_Witness ==
    /\ search.pc = "loop"
    /\ search.sims = 3
    /\ Len(search.path) = 3
    /\ search.value # 0
    /\ \A k \in 1 .. 3 : search.tree[search.path[k]].wi # 0
    /\ \E id \in 1 .. Len(search.tree) : ~OnPath(id) /\ search.tree[id].ni = 1

-----------------------------------------------------------------------------
(* Properties of the search tree (checked under SearchSpec) *)

NodeIds == 1 .. Len(search.tree)

\* the position of a node: the moves from the root down to it, each made by
\* the player to move at the node it leaves, on the board select_move was
\* called on
RECURSIVE NodeBoard(_)
NodeBoard(id) ==
    IF search.tree[id].parent = 0
    THEN [grid |-> grid, heights |-> heights, ret |-> "True"]
    ELSE MakeMove(NodeBoard(search.tree[id].parent), search.tree[id].move,
                  search.tree[search.tree[id].parent].player_to_move)

NodeTerminal(id) == IsTerminal(NodeBoard(id).grid, NodeBoard(id).heights)[1]

\* the visits of the children of a node, added up
RECURSIVE VisitsBelow(_, _)
VisitsBelow(id, i) ==
    IF i > Len(search.tree[id].children) THEN 0
    ELSE search.tree[search.tree[id].children[i].node].ni + VisitsBelow(id, i + 1)

\* C28: after k completed simulations the root has ni = k; every node has at
\* least as many visits as its children together: exactly as many at a root
\* whose position is not terminal, one more at every other node whose
\* position is not terminal; and wi is an integer between -ni and ni.
C28_VisitCounts ==
    /\ search.pc # "idle" => search.tree[1].ni = search.sims
    /\ search.pc \in {"loop", "returned"} =>
          \A id \in NodeIds :
             LET n == search.tree[id]
             IN  /\ n.ni >= VisitsBelow(id, 1)
                 /\ ~NodeTerminal(id) =>
                       n.ni = VisitsBelow(id, 1) + (IF id = 1 THEN 0 ELSE 1)
                 /\ n.wi \in (0 - n.ni) .. n.ni

\* three simulations are over; a node below the root has two visits and one
\* child, and a node whose position is terminal has no child
C28_Witness ==
    /\ search.pc = "loop"
    /\ search.sims = 3
    /\ \E id \in NodeIds \ {1} :
          /\ ~NodeTerminal(id)
          /\ search.tree[id].ni = 2
          /\ Len(search.tree[id].children) = 1
    /\ \E id \in NodeIds : NodeTerminal(id) /\ search.tree[id].ni >= 1

\* UCT is about to call best_child on the last node of the path
BestChildCalled ==
    /\ search.pc = "select"
    /\ search.algo = "UCT"
    /\ SelectionGoesOn(search.tree, search.path)

\* C29: wherever UCT calls best_child, the node has ni >= 1 and every child
\* of it has ni >= 1: the branch for children without a visit is not taken,
\* best_child returns a child (never None, and never one whose move is None)
\* and no division by zero or logarithm of zero is evaluated.
C29_BestChildOnVisitedNodes ==
    /\ BestChildCalled =>
          LET id == search.path[Len(search.path)]
              n  == NodeView(search.tree, id)
          IN  /\ n.ni >= 1
              /\ \A i \in 1 .. Len(n.children) : n.children[i].ni >= 1
              /\ Unexplored(n) = {}
              /\ \A c \in BestChild(n) :
                    /\ c.kind = "child"
                    /\ SelectedMove("UCT", search.tree, id, c.idx) \in Cols
    /\ search.pc # "raised"

\* UCT has stepped from the root to a child that is fully expanded and calls
\* best_child there, the root having two children
C29_Witness ==
    /\ BestChildCalled
    /\ Len(search.path) = 2
    /\ Len(search.tree[1].children) >= 2
    /\ search.tree[search.path[2]].ni >= 2

\* the elements of a list
Elems(seq) == { seq[i] : i \in 1 .. Len(seq) }

\* the keys of the children dict of a node
Keys(n) == { n.children[i].key : i \in 1 .. Len(n.children) }

\* the bookkeeping of one node: untried moves and children keys split the
\* legal moves of its position, and each child is filed under its own move
\* with the other player to move
NodeWellFormed(id) ==
    LET n == search.tree[id]
    IN  /\ Elems(n.untried_moves) \cap Keys(n) = {}
        /\ Elems(n.untried_moves) \cup Keys(n)
             = Elems(GetLegalMoves(NodeBoard(id).heights))
        /\ Cardinality(Elems(n.untried_moves)) = Len(n.untried_moves)
        /\ Cardinality(Keys(n)) = Len(n.children)
        /\ \A i \in 1 .. Len(n.children) :
              LET child == search.tree[n.children[i].node]
              IN  /\ child.move = n.children[i].key
                  /\ child.parent = id
                  /\ child.player_to_move = Opponent(n.player_to_move)

\* a step that adds a node takes one column out of the untried moves of one
\* node and files the new node under that column there
ExpandsOneColumn ==
    Len(search'.tree) # Len(search.tree) =>
        /\ Len(search'.tree) = Len(search.tree) + 1
        /\ \E id \in NodeIds : \E move \in Elems(search.tree[id].untried_moves) :
              /\ Elems(search'.tree[id].untried_moves)
                   = Elems(search.tree[id].untried_moves) \ {move}
              /\ Len(search'.tree[id].untried_moves)
                   = Len(search.tree[id].untried_moves) - 1
              /\ search'.tree[id].children
                   = Append(search.tree[id].children,
                            [key |-> move, node |-> Len(search.tree) + 1])
              /\ \A other \in NodeIds \ {id} :
                    search'.tree[other] = search.tree[other]

\* C22: at every node the untried-move list and the key set of children are
\* disjoint and together are the legal moves of the position reached by the
\* node's moves from the root; each child's stored move is its key and its
\* player_to_move is the opponent of its parent's; an expansion moves exactly
\* one column from untried_moves to children; and every move made on the
\* scratch board in the descent and the expansion is accepted by make_move.
C22_TreeBookkeeping ==
    /\ [](\A id \in NodeIds : NodeWellFormed(id))
    /\ [](\A k \in 1 .. Len(search.placed) :
             search.placed[k].node # 0 => search.placed[k].ret = "True")
    /\ [][ExpandsOneColumn]_vars

\* a simulation has stepped from the root to a child and expanded it: the
\* child keeps an untried move beside its first child, and both moves were
\* made from nodes
C22_Witness ==
    /\ search.pc \in {"rollout", "backprop"}
    /\ Len(search.path) = 3
    /\ Len(search.placed) = 2
    /\ search.placed[1].node = 1
    /\ search.placed[2].node = search.path[2]
    /\ Len(search.tree[search.path[2]].children) = 1
    /\ Len(search.tree[search.path[2]].untried_moves) >= 1
    /\ search.tree[search.path[3]].parent = search.path[2]

\* the descent: while the simulation selects, every node of the path but the
\* last has no untried move, and each node of the path is a child of the one
\* before it
DescentThroughExpanded ==
    search.pc \in {"select", "expand"} =>
        \A k \in 1 .. Len(search.path) - 1 :
           /\ IsFullyExpanded(search.tree[search.path[k]])
           /\ \E i \in 1 .. Len(search.tree[search.path[k]].children) :
                 search.tree[search.path[k]].children[i].node = search.path[k + 1]

\* a step of the descent leaves a node that has no untried move and has a
\* child
DescentStep ==
    (search.pc = "select" /\ search'.path # search.path) =>
        /\ IsFullyExpanded(search.tree[search.path[Len(search.path)]])
        /\ search.tree[search.path[Len(search.path)]].children # <<>>
        /\ Len(search'.path) = Len(search.path) + 1

\* nodes are added by the expansion only: one below the node the descent
\* ended at if the scratch board is not terminal there, none if it is
OneNodePerSimulation ==
    /\ search.pc # "expand" => Len(search'.tree) = Len(search.tree)
    /\ search.pc = "expand" =>
          IF IsTerminal(search.cur.grid, search.cur.heights)[1]
          THEN search'.tree = search.tree
          ELSE /\ Len(search'.tree) = Len(search.tree) + 1
               /\ search'.tree[Len(search'.tree)].parent
                    = search.path[Len(search.path)]
               /\ ~IsFullyExpanded(search.tree[search.path[Len(search.path)]])

\* C23: the descent steps from a node to a child only while the node has no
\* untried move and has a child, so the expansion takes place at the first
\* node of the path that has an untried move; a simulation adds exactly one
\* node if its descent ends on a position that is not terminal and none if it
\* ends on a terminal one; after k simulations the tree has at most k + 1
\* nodes.
C23_DescentAndGrowth ==
    /\ []DescentThroughExpanded
    /\ [][DescentStep /\ OneNodePerSimulation]_vars
    /\ [](Len(search.tree) <= search.sims + 1
             + (IF search.pc \in {"rollout", "backprop"} THEN 1 ELSE 0))

\* the third simulation went down to a child whose position is terminal and
\* added no node: three simulations, three nodes
C23_Witness ==
    /\ search.pc = "loop"
    /\ search.sims = 3
    /\ Len(search.tree) = 3
    /\ Len(search.path) = 2
    /\ NodeTerminal(search.path[2])
    /\ search.tree[search.path[2]].ni = 2

-----------------------------------------------------------------------------
(* The order of play within a simulation (checked under SearchSpec) *)

\* the moves of the simulation made in the rollout
RolloutMoves == { k \in 1 .. Len(search.placed) : search.placed[k].node = 0 }

\* the tokens of a player that the simulation has put on the scratch board
PlacedBy(player) ==
    Cardinality({ k \in 1 .. Len(search.placed) :
                     search.placed[k].player = player /\ search.placed[k].ret = "True" })

\* the moves of the simulation so far, in order
PlayInTurn ==
    /\ Len(search.placed) >= 1 =>
          search.placed[1].player = search.tree[1].player_to_move
    /\ \A k \in 1 .. Len(search.placed) - 1 :
          search.placed[k + 1].player # search.placed[k].player
    /\ \A k \in 1 .. Len(search.placed) :
          /\ search.placed[k].ret = "True"
          /\ search.placed[k].node # 0 =>
                /\ k < Len(search.path)
                /\ search.placed[k].node = search.path[k]
                /\ search.placed[k].player
                     = search.tree[search.path[k]].player_to_move
          /\ search.placed[k].node = 0 =>
                /\ k >= Len(search.path)
                /\ (k = Len(search.path) =>
                      search.placed[k].player
                        = search.tree[search.path[Len(search.path)]].player_to_move)
    /\ \A player \in Players :
          search.pc \in {"select", "expand", "rollout", "backprop"} =>
             CountTokens(search.cur.grid, player)
               = CountTokens(grid, player) + PlacedBy(player)

\* a token is only ever put on a scratch board that is not terminal
PlacedBeforeTheEnd ==
    Len(search'.placed) > Len(search.placed) =>
        ~IsTerminal(search.cur.grid, search.cur.heights)[1]

\* C25: within one simulation the tokens placed in the descent, the expansion
\* and the rollout strictly alternate, starting with the root's
\* player_to_move; each move of the descent and the expansion is played by
\* the player_to_move of the node it is made from; the first move of the
\* rollout is played by the player_to_move of the last node of the path; and
\* the rollout stops at the first terminal board.
C25_PlayAlternates ==
    /\ []PlayInTurn
    /\ [](search.pc = "rollout" =>
             ~IsTerminal(search.cur.grid, search.cur.heights)[1])
    /\ [][PlacedBeforeTheEnd]_vars

\* a simulation has made a move in the descent, one in the expansion and at
\* least two in the rollout, and has come to the end of the game
C25_Witness ==
    /\ search.pc = "backprop"
    /\ Len(search.path) = 3
    /\ Cardinality(RolloutMoves) >= 2
    /\ search.placed[1].node = 1
    /\ search.placed[2].node = search.path[2]
    /\ search.placed[3].node = 0
    /\ search.placed[3].player = search.tree[1].player_to_move

-----------------------------------------------------------------------------
(* The move the engines return against a threat (checked under SearchSpec) *)

\* the board select_move was called on
GivenPosition == [grid |-> grid, heights |-> heights]

\* Yellow completes four in a row by playing col
YellowWinsAt(b, col) ==
    /\ IsValidMove(b.heights, col)
    /\ CheckWin(MakeMove(b, col, "Y").grid, "Y")

\* Red's move col hands Yellow the win: Yellow can complete four right after it
HandsYellowTheWin(b, col) ==
    /\ IsValidMove(b.heights, col)
    /\ ~CheckWin(MakeMove(b, col, "R").grid, "R")
    /\ \E c \in Cols : YellowWinsAt(MakeMove(b, col, "R"), c)

\* Red is to move against an immediate threat of Yellow that it can avoid
\* handing the win to
ThreatToRed ==
    /\ search.player = "R"
    /\ ~IsTerminal(grid, heights)[1]
    /\ \E c \in Cols : YellowWinsAt(GivenPosition, c)
    /\ \E c \in Cols :
          IsValidMove(heights, c) /\ ~HandsYellowTheWin(GivenPosition, c)

\* C21: given a large simulation budget (the text names 5,000 or more; here
\* the whole budget num_simulations = MaxSims has been spent), with Red to
\* move where Yellow has an immediate three-in-a-row threat with an open
\* fourth cell, PMCGS and UCT each return a column other than one that hands
\* Yellow the win, where such a column exists.
C21_EnginesAvoidLosingColumn ==
    (search.pc = "returned" /\ search.num_simulations = MaxSims /\ ThreatToRed) =>
        /\ search.final_move \in Cols
        /\ ~HandsYellowTheWin(GivenPosition, search.final_move)

\* UCT has spent its whole budget and returns the column that hands Yellow
\* the win: that column was expanded first and has had every visit but one,
\* the blocking column was visited once, in a rollout that Yellow won, and
\* the two averages are equal
C21_Witness ==
    /\ search.pc = "returned"
    /\ search.algo = "UCT"
    /\ search.num_simulations = MaxSims
    /\ ThreatToRed
    /\ HandsYellowTheWin(GivenPosition, search.final_move)
    /\ Len(search.tree[1].children) = 2
    /\ search.tree[1].children[1].key = search.final_move
    /\ ~HandsYellowTheWin(GivenPosition, search.tree[1].children[2].key)
    /\ search.tree[search.tree[1].children[1].node].ni = MaxSims - 1
    /\ search.tree[search.tree[1].children[1].node].wi = MaxSims - 1
    /\ search.tree[search.tree[1].children[2].node].ni = 1
    /\ search.tree[search.tree[1].children[2].node].wi = 1

=============================================================================
